---- MODULE Spec2Model ----
(***************************************************************************)
(* A model of the pattern-compilation and batched-matching engine of       *)
(* src/src/components/HebrewMatcher.jsx: templateToRegex, the letter       *)
(* constraint check, searchInWordlist and loadAndSearchWordlists.          *)
(*                                                                         *)
(* Text is modelled as a sequence of characters, a character as a string   *)
(* naming it: "alef" and "bet" are two letters of the Hebrew block, "."    *)
(* is a character outside the block that is also a regex metacharacter.    *)
(***************************************************************************)
EXTENDS Integers, Sequences, FiniteSets, TLC

VARIABLES
    pc,                \* position of the running function
    pattern,           \* the template string
    opts,              \* { stripNiqqud, unique, wholeWord }
    letterConstraints, \* null or { selected, deselected }
    batchSize,         \* BATCH_SIZE
    rx,                \* outcome of templateToRegex: thrown or a matcher
    word,              \* the word handed to rx.test / passesLetterConstraints
    verdict,           \* boolean returned by the last test
    caller,            \* who awaits searchInWordlist: "top", "source", "custom"
    onProgress,        \* whether searchInWordlist was given a progress callback
    words,             \* searchInWordlist: the list searched
    i,                 \* searchInWordlist: offset of the current batch
    matches,           \* searchInWordlist: matches so far / returned
    progress,          \* the onProgress(currentBatch, totalBatches) calls made
    sourceKeys,        \* loadAndSearchWordlists: argument
    customWordlists,   \* loadAndSearchWordlists: argument
    si,                \* index of the source key being processed
    ci,                \* index of the custom list being processed
    allMatches,        \* loadAndSearchWordlists: accumulated matches
    allWordCounts,     \* loadAndSearchWordlists: { total, matched }
    loads,             \* outcome of each loadWordlist call so far, in call order
    statusCalls,       \* the onSourceStatus calls so far
    trace,             \* the steps taken, each tagged with its loop and index
    result,            \* the value loadAndSearchWordlists resolved to
    text,              \* loadWordlist: the raw text of the source
    letterStates,      \* component state: the entries letter -> 'selected' | 'deselected'
    lastToggle,        \* the last letter-picker action and letterStates before it
    runs,              \* the handleSearch calls: position and captured constraints
    sourceStatus,      \* component state: per source key, status and the run that set it
    statusText,        \* component state status: the message and the run that set it
    shownMatches       \* component state matches: the run whose results are shown

inputVars == <<pattern, opts, letterConstraints, batchSize>>
testVars == <<word, verdict>>
searchVars == <<caller, onProgress, words, i, matches, progress>>
runArgs == <<sourceKeys, customWordlists>>
runVars == <<si, ci, allMatches, allWordCounts, loads, statusCalls, result>>

hostVars == <<text, letterStates, lastToggle, runs, sourceStatus, statusText, shownMatches>>

vars == <<pc, inputVars, rx, testVars, searchVars, runArgs, runVars, trace, hostVars>>

--------------------------------------------------------------------------
(* Bounds of the model *)

MaxTemplateLen == 3
MaxWordLen == 3
MaxListLen == 3
MaxBatch == 2
MaxTextLen == 4
MaxRuns == 2

--------------------------------------------------------------------------
(* Characters *)

HebrewChars == {"alef", "bet"}
WordChars == HebrewChars \cup {"."}
TemplateChars == HebrewChars \cup {".", "?", "[", "]"}

\* Code points of the characters of the model; "\\u0590" and "\\u05FF" are the
\* two escapes written in HEBREW_LETTERS_CLASS, each kept as one element.
CodePoint(c) ==
    CASE c = "alef" -> 1488
      [] c = "bet" -> 1489
      [] c = "\\u0590" -> 1424
      [] c = "\\u05FF" -> 1535
      [] c = "$" -> 36
      [] c = "-" -> 45
      [] c = "." -> 46
      [] c = "?" -> 63
      [] c = "[" -> 91
      [] c = "\\" -> 92
      [] c = "]" -> 93
      [] c = "^" -> 94
      [] c = "sheva" -> 1456
      [] c = "diaeresis" -> 168
      [] c = "combining diaeresis" -> 776
      [] c = " " -> 32
      [] c = "\n" -> 10
      [] c = "\r" -> 13

SeqsUpTo(S, n) == UNION {[1..k -> S] : k \in 0..n}

Templates == SeqsUpTo(TemplateChars, MaxTemplateLen)
Words == SeqsUpTo(WordChars, MaxWordLen)

--------------------------------------------------------------------------
(* templateToRegex *)

HEBREW_LETTERS_CLASS == <<"[", "\\u0590", "-", "\\u05FF", "]">>

\* the characters of /[.*+?^${}()|[\]\\]/
EscapedChars == {".", "*", "+", "?", "^", "$", "{", "}", "(", ")", "|", "[", "]", "\\"}

\* ch.replace(/[.*+?^${}()|[\]\\]/g, "\\$&") with the escaping left out
EscapeCharNone(ch) == <<ch>>

\* ch.replace(/[.*+?^${}()|[\]\\]/g, "\\$&")
EscapeChar(ch) == IF ch \in EscapedChars THEN <<"\\", ch>> ELSE <<ch>>

\* the scan loop with a "]" that closes a class but is not copied
RECURSIVE ScanDropClose(_, _, _, _)
ScanDropClose(template, n, inClass, out) ==
    IF n > Len(template) THEN out
    ELSE LET ch == template[n] IN
        IF ch = "[" /\ ~inClass THEN ScanDropClose(template, n + 1, TRUE, out \o <<ch>>)
        ELSE IF ch = "]" /\ inClass THEN ScanDropClose(template, n + 1, FALSE, out)
        ELSE IF inClass THEN ScanDropClose(template, n + 1, inClass, out \o <<ch>>)
        ELSE IF ch = "?" THEN ScanDropClose(template, n + 1, inClass, out \o HEBREW_LETTERS_CLASS)
        ELSE ScanDropClose(template, n + 1, inClass, out \o EscapeChar(ch))

\* the for loop of templateToRegex, from index n with the locals inClass, out
RECURSIVE Scan(_, _, _, _)
Scan(template, n, inClass, out) ==
    IF n > Len(template) THEN out
    ELSE LET ch == template[n] IN
        IF ch = "[" /\ ~inClass THEN Scan(template, n + 1, TRUE, out \o <<ch>>)
        ELSE IF ch = "]" /\ inClass THEN Scan(template, n + 1, FALSE, out \o <<ch>>)
        ELSE IF inClass THEN Scan(template, n + 1, inClass, out \o <<ch>>)
        ELSE IF ch = "?" THEN Scan(template, n + 1, inClass, out \o HEBREW_LETTERS_CLASS)
        ELSE Scan(template, n + 1, inClass, out \o EscapeChar(ch))

\* the anchors added whatever the flag says
AnchorAlways(out, wholeWord) == <<"^">> \o out \o <<"$">>

\* (wholeWord ? "^" : "") + out + (wholeWord ? "$" : "")
Anchor(out, wholeWord) ==
    (IF wholeWord THEN <<"^">> ELSE <<>>) \o out \o (IF wholeWord THEN <<"$">> ELSE <<>>)

--------------------------------------------------------------------------
(* new RegExp(source, "u") and RegExp.prototype.test, for the sources the  *)
(* scan can emit: anchors, escaped and plain characters, bracket classes.  *)

Atom(kind, ch, body) == [kind |-> kind, ch |-> ch, body |-> body]
SyntaxError == [threw |-> TRUE, atoms |-> <<>>]
Parsed(atoms) == [threw |-> FALSE, atoms |-> atoms]
Cons(atom, rest) == IF rest.threw THEN SyntaxError ELSE Parsed(<<atom>> \o rest.atoms)

Min(S) == CHOOSE x \in S : \A y \in S : x <= y

RECURSIVE ParseFrom(_, _)
ParseFrom(src, n) ==
    IF n > Len(src) THEN Parsed(<<>>)
    ELSE LET c == src[n] IN
        IF c = "["
        THEN LET close == {j \in (n + 1)..Len(src) : src[j] = "]"} IN
             IF close = {} THEN SyntaxError   \* unterminated character class
             ELSE Cons(Atom("class", "", SubSeq(src, n + 1, Min(close) - 1)),
                       ParseFrom(src, Min(close) + 1))
        ELSE IF c = "\\"
        THEN IF n + 1 <= Len(src) /\ src[n + 1] \in EscapedChars
             THEN Cons(Atom("lit", src[n + 1], <<>>), ParseFrom(src, n + 2))
             ELSE SyntaxError                 \* \ at end of pattern
        ELSE IF c = "^" THEN Cons(Atom("bol", "", <<>>), ParseFrom(src, n + 1))
        ELSE IF c = "$" THEN Cons(Atom("eol", "", <<>>), ParseFrom(src, n + 1))
        ELSE IF c = "." THEN Cons(Atom("any", "", <<>>), ParseFrom(src, n + 1))
        ELSE IF c \in EscapedChars
        THEN SyntaxError                      \* a lone "]" (unicode mode); the scan emits no quantifier
        ELSE Cons(Atom("lit", c, <<>>), ParseFrom(src, n + 1))

NewRegExp(src) == ParseFrom(src, 1)

\* does the class body (the text between the brackets) hold character c
RECURSIVE ClassHas(_, _)
ClassHas(body, c) ==
    IF body = <<>> THEN FALSE
    ELSE IF Len(body) >= 3 /\ body[2] = "-"
    THEN (CodePoint(body[1]) <= CodePoint(c) /\ CodePoint(c) <= CodePoint(body[3]))
         \/ ClassHas(SubSeq(body, 4, Len(body)), c)
    ELSE CodePoint(body[1]) = CodePoint(c) \/ ClassHas(Tail(body), c)

AtomAccepts(a, c) ==
    CASE a.kind = "lit" -> a.ch = c
      [] a.kind = "any" -> TRUE
      [] a.kind = "class" ->
            IF a.body # <<>> /\ a.body[1] = "^"
            THEN ~ClassHas(Tail(a.body), c)
            ELSE ClassHas(a.body, c)
      [] OTHER -> FALSE

\* the atoms from the k-th on match w starting at position p
RECURSIVE MatchAt(_, _, _, _)
MatchAt(atoms, k, w, p) ==
    IF k > Len(atoms) THEN TRUE
    ELSE LET a == atoms[k] IN
        IF a.kind = "bol" THEN p = 1 /\ MatchAt(atoms, k + 1, w, p)
        ELSE IF a.kind = "eol" THEN p = Len(w) + 1 /\ MatchAt(atoms, k + 1, w, p)
        ELSE p <= Len(w) /\ AtomAccepts(a, w[p]) /\ MatchAt(atoms, k + 1, w, p + 1)

\* rx.test(w): a match starting anywhere
RxTest(r, w) == \E p \in 1..(Len(w) + 1) : MatchAt(r.atoms, 1, w, p)

templateToRegex(template, wholeWord) ==
    NewRegExp(Anchor(Scan(template, 1, FALSE, <<>>), wholeWord))

--------------------------------------------------------------------------
(* Values that stand for "not set" *)

NoRx == [threw |-> FALSE, atoms |-> <<Atom("unset", "", <<>>)>>]
NoOpts == [stripNiqqud |-> FALSE, unique |-> FALSE, wholeWord |-> FALSE]

--------------------------------------------------------------------------
(* passesLetterConstraints, the helper inside searchInWordlist *)

\* letterConstraints = null
NullConstraints == [isNull |-> TRUE, selected |-> <<>>, deselected |-> <<>>]
Constraints(sel, desel) == [isNull |-> FALSE, selected |-> sel, deselected |-> desel]

\* word.includes(letter), letter one character
Includes(w, letter) == \E n \in 1..Len(w) : w[n] = letter

\* for (const letter of selected) if (!word.includes(letter)) return false
RECURSIVE MissesSelected(_, _, _)
MissesSelected(w, selected, k) ==
    IF k > Len(selected) THEN FALSE
    ELSE IF ~Includes(w, selected[k]) THEN TRUE
    ELSE MissesSelected(w, selected, k + 1)

\* for (const letter of deselected) if (word.includes(letter)) return false
RECURSIVE HitsDeselected(_, _, _)
HitsDeselected(w, deselected, k) ==
    IF k > Len(deselected) THEN FALSE
    ELSE IF Includes(w, deselected[k]) THEN TRUE
    ELSE HitsDeselected(w, deselected, k + 1)

\* the check with the first loop returning after its first letter
passesFirstSelectedOnly(w, lc) ==
    IF lc.isNull THEN TRUE
    ELSE IF lc.selected # <<>> /\ ~Includes(w, lc.selected[1]) THEN FALSE
    ELSE IF HitsDeselected(w, lc.deselected, 1) THEN FALSE
    ELSE TRUE

passesLetterConstraints(w, lc) ==
    IF lc.isNull THEN TRUE
    ELSE IF MissesSelected(w, lc.selected, 1) THEN FALSE
    ELSE IF HitsDeselected(w, lc.deselected, 1) THEN FALSE
    ELSE TRUE

Range(s) == {s[n] : n \in 1..Len(s)}
NoRepeat(s) == Cardinality(Range(s)) = Len(s)

\* arrays of distinct picker letters, no letter in both
LetterArrays == {s \in SeqsUpTo(HebrewChars, Cardinality(HebrewChars)) : NoRepeat(s)}
ConstraintSets ==
    {NullConstraints} \cup
    {Constraints(sel, desel) : <<sel, desel>> \in
        {p \in LetterArrays \X LetterArrays : Range(p[1]) \cap Range(p[2]) = {}}}

NoResult == [returned |-> FALSE, matches |-> <<>>, stats |-> [total |-> 0, matched |-> 0]]

\* no searchInWordlist call and no loadAndSearchWordlists run in progress
NoSearch ==
    /\ caller = "none" /\ onProgress = FALSE /\ words = <<>> /\ i = 0
    /\ matches = <<>> /\ progress = <<>>
NoRun ==
    /\ sourceKeys = <<>> /\ customWordlists = <<>> /\ si = 1 /\ ci = 1
    /\ allMatches = <<>> /\ allWordCounts = [total |-> 0, matched |-> 0]
    /\ loads = <<>> /\ statusCalls = <<>> /\ result = NoResult /\ trace = <<>>

\* no loadWordlist call of its own and no component state in use
NoToggle == [kind |-> "none", letter |-> "", isRightClick |-> FALSE, before |-> <<>>]
IdleRun == [pc |-> "idle", at |-> 0, letterConstraints |-> NullConstraints]
NoHost ==
    /\ text = <<>>
    /\ letterStates = <<>>
    /\ lastToggle = NoToggle
    /\ runs = [r \in 1..MaxRuns |-> IdleRun]
    /\ sourceStatus = [k \in {"nouns", "verbs"} |-> [status |-> "none", run |-> 0]]
    /\ statusText = [message |-> "", run |-> 0]
    /\ shownMatches = 0

--------------------------------------------------------------------------
(* SpecCompile: templateToRegex(pattern, wholeWord), then rx.test(word) *)

InitCompile ==
    /\ pc = "compile"
    /\ pattern \in Templates
    /\ opts \in {[NoOpts EXCEPT !.wholeWord = ww] : ww \in BOOLEAN}
    /\ letterConstraints = NullConstraints
    /\ batchSize = 1
    /\ rx = NoRx
    /\ word = <<>>
    /\ verdict = FALSE
    /\ NoSearch /\ NoRun /\ NoHost

Compile ==
    /\ pc = "compile"
    /\ rx' = templateToRegex(pattern, opts.wholeWord)
    /\ pc' = IF rx'.threw THEN "threw" ELSE "compiled"
    /\ UNCHANGED <<hostVars, inputVars, testVars, searchVars, runArgs, runVars, trace>>

Test ==
    /\ pc = "compiled"
    /\ \E w \in Words :
        /\ word' = w
        /\ verdict' = RxTest(rx, w)
    /\ pc' = "tested"
    /\ UNCHANGED <<hostVars, inputVars, rx, searchVars, runArgs, runVars, trace>>

NextCompile == Compile \/ Test

SpecCompile == InitCompile /\ [][NextCompile]_vars

\* a template of literal characters and "?" only: no "[" opens a class
SimpleTemplate(t) == \A n \in 1..Len(t) : t[n] # "["

\* same length, equal at the literals, a Hebrew-block character at each "?"
FitsTemplate(t, w) ==
    /\ Len(w) = Len(t)
    /\ \A n \in 1..Len(t) : IF t[n] = "?" THEN w[n] \in HebrewChars ELSE w[n] = t[n]

\* C2: for a template of literals and "?" only, templateToRegex(template, true)
\* yields a matcher, and the matcher accepts a word exactly when the word has
\* the template's length, equals it at every literal and has a Hebrew-block
\* character at every "?"; metacharacters in the template are literals too.
C2_WholeWordExact ==
    /\ (pc = "threw" /\ opts.wholeWord) => ~SimpleTemplate(pattern)
    /\ (pc = "tested" /\ opts.wholeWord /\ SimpleTemplate(pattern))
            => (verdict = FitsTemplate(pattern, word))

C2_Witness ==
    /\ pc = "tested" /\ opts.wholeWord /\ verdict
    /\ pattern = <<"alef", "?", ".">>
    /\ word = <<"alef", "bet", ".">>

\* a "[" with no "]" after it: the class it opens, or lies in, is never closed
Unterminated(t) ==
    \E n \in 1..Len(t) : t[n] = "[" /\ \A j \in (n + 1)..Len(t) : t[j] # "]"

Windows(w, n) == {SubSeq(w, s, s + n - 1) : s \in 1..(Len(w) - n + 1)}

\* C10: for a template of literals and "?" only, substring mode accepts w
\* exactly when whole-word mode accepts some contiguous window of w of the
\* template's length; whole-word mode rejects every word of another length.
C10_SubstringIsWindow ==
    /\ (pc = "tested" /\ ~opts.wholeWord /\ SimpleTemplate(pattern))
            => (verdict = \E v \in Windows(word, Len(pattern)) :
                              RxTest(templateToRegex(pattern, TRUE), v))
    /\ (pc = "tested" /\ opts.wholeWord /\ SimpleTemplate(pattern)
            /\ Len(word) # Len(pattern)) => ~verdict

C10_Witness ==
    /\ pc = "tested" /\ ~opts.wholeWord /\ verdict
    /\ pattern = <<"bet">>
    /\ word = <<"alef", "bet", "alef">>

--------------------------------------------------------------------------
(* SpecConstraints: passesLetterConstraints(word) under letterConstraints *)

InitConstraints ==
    /\ pc = "check"
    /\ pattern = <<>>
    /\ opts = NoOpts
    /\ letterConstraints \in ConstraintSets
    /\ batchSize = 1
    /\ rx = NoRx
    /\ word \in Words
    /\ verdict = FALSE
    /\ NoSearch /\ NoRun /\ NoHost

CheckLetters ==
    /\ pc = "check"
    /\ verdict' = passesLetterConstraints(word, letterConstraints)
    /\ pc' = "checked"
    /\ UNCHANGED <<hostVars, inputVars, rx, word, searchVars, runArgs, runVars, trace>>

NextConstraints == CheckLetters

SpecConstraints == InitConstraints /\ [][NextConstraints]_vars

\* C3: the check accepts a word exactly when every selected letter occurs in
\* it and no deselected letter does; with null constraints it accepts all.
C3_ConstraintCheck ==
    (pc = "checked") =>
        /\ letterConstraints.isNull => verdict
        /\ ~letterConstraints.isNull =>
            (verdict = (/\ Range(letterConstraints.selected) \subseteq Range(word)
                        /\ Range(letterConstraints.deselected) \cap Range(word) = {}))

C3_Witness ==
    /\ pc = "checked" /\ ~verdict
    /\ letterConstraints = Constraints(<<"alef", "bet">>, <<>>)
    /\ word = <<"alef", ".">>

--------------------------------------------------------------------------
(* searchInWordlist *)

\* ws.filter(w => rx.test(w) && passesLetterConstraints(w))
RECURSIVE FilterWords(_, _, _)
FilterWords(ws, r, lc) ==
    IF ws = <<>> THEN <<>>
    ELSE (IF RxTest(r, Head(ws)) /\ passesLetterConstraints(Head(ws), lc)
          THEN <<Head(ws)>> ELSE <<>>) \o FilterWords(Tail(ws), r, lc)

\* the slice with its end taken as the last index kept
BatchOfShort(ws, from, size) ==
    SubSeq(ws, from + 1, IF from + size - 1 < Len(ws) THEN from + size - 1 ELSE Len(ws))

\* ws.slice(from, from + size)
BatchOf(ws, from, size) ==
    SubSeq(ws, from + 1, IF from + size < Len(ws) THEN from + size ELSE Len(ws))

\* the number of batches rounded down instead of up
CeilRoundsDown(a, b) == a \div b

\* Math.ceil(a / b), Math.floor(a / b)
Ceil(a, b) == (a + b - 1) \div b
Floor(a, b) == a \div b

Step(ev) == [ev |-> ev, loop |-> caller, index |-> IF caller = "custom" THEN ci ELSE si]

\* entry of searchInWordlist: the matcher is compiled (or the compilation
\* throws), a list of at most BATCH_SIZE words is filtered and returned at once
SearchEnter ==
    /\ pc = "search"
    /\ rx' = templateToRegex(pattern, opts.wholeWord)
    /\ i' = 0
    /\ progress' = <<>>
    /\ IF rx'.threw
       THEN /\ pc' = "search_threw"
            /\ matches' = <<>>
            /\ trace' = Append(trace, Step("threw"))
       ELSE IF Len(words) <= batchSize
       THEN /\ pc' = "search_done"
            /\ matches' = FilterWords(words, rx', letterConstraints)
            /\ trace' = Append(trace, Step("filter"))
       ELSE /\ pc' = "batch"
            /\ matches' = <<>>
            /\ trace' = Append(trace, Step("compiled"))
    /\ UNCHANGED <<hostVars, inputVars, testVars, caller, onProgress, words, runArgs, runVars>>

\* one pass of the batch loop, up to the await of the timeout
SearchBatch ==
    /\ pc = "batch"
    /\ matches' = matches \o
            FilterWords(BatchOf(words, i, batchSize), rx, letterConstraints)
    /\ progress' = IF onProgress
                   THEN Append(progress, <<Floor(i, batchSize) + 1, Ceil(Len(words), batchSize)>>)
                   ELSE progress
    /\ pc' = "yield"
    /\ trace' = Append(trace, Step("batch"))
    /\ UNCHANGED <<hostVars, inputVars, rx, testVars, caller, onProgress, words, i, runArgs, runVars>>

\* the timeout fires: i += BATCH_SIZE, then the next pass or the return
SearchResume ==
    /\ pc = "yield"
    /\ i' = i + batchSize
    /\ pc' = IF i' < Len(words) THEN "batch" ELSE "search_done"
    /\ trace' = Append(trace, Step("resume"))
    /\ UNCHANGED <<hostVars, inputVars, rx, testVars, caller, onProgress, words, matches,
                   progress, runArgs, runVars>>

--------------------------------------------------------------------------
(* SpecScan: one call searchInWordlist(words, pattern, wholeWord,          *)
(* onProgress, letterConstraints)                                          *)

\* the words the lists are made of, each a valid Word
ListWords == {<<"alef">>, <<"bet">>, <<"alef", "bet">>}
WordLists == SeqsUpTo(ListWords, MaxListLen)

\* templates of at most one character, "[" among them
ShortTemplates == {t \in Templates : Len(t) <= 1}

\* the lists a source may load or a custom list may hold
LoadedLists ==
    { <<>>,
      <<(<<"alef">>)>>,
      <<(<<"alef", "bet">>), (<<"bet">>)>>,
      <<(<<"alef">>), (<<"alef", "bet">>), (<<"alef">>)>> }

SomeConstraints ==
    {NullConstraints, Constraints(<<"alef">>, <<>>), Constraints(<<>>, <<"bet">>)}

InitScan ==
    /\ pc = "search"
    /\ pattern \in ShortTemplates
    /\ opts \in {[NoOpts EXCEPT !.wholeWord = ww] : ww \in BOOLEAN}
    /\ letterConstraints \in SomeConstraints
    /\ batchSize \in 1..MaxBatch
    /\ rx = NoRx
    /\ word = <<>> /\ verdict = FALSE
    /\ caller = "top"
    /\ onProgress \in BOOLEAN
    /\ words \in WordLists
    /\ i = 0 /\ matches = <<>> /\ progress = <<>>
    /\ NoRun /\ NoHost

NextScan == SearchEnter \/ SearchBatch \/ SearchResume

SpecScan == InitScan /\ [][NextScan]_vars

\* the accepted words of ws, by position: those the matcher compiled from the
\* pattern accepts and that pass the letter constraints
Accepted(w) ==
    /\ RxTest(templateToRegex(pattern, opts.wholeWord), w)
    /\ letterConstraints.isNull
         \/ /\ Range(letterConstraints.selected) \subseteq Range(w)
            /\ Range(letterConstraints.deselected) \cap Range(w) = {}
Restricted(ws) == SelectSeq(ws, Accepted)

\* C4: whatever the chunk size, searchInWordlist returns the input sequence
\* restricted to the accepted words, in input order with repeats kept; so the
\* result does not depend on the chunk size, one chunk or several.
C4_ChunkInvariance == (pc = "search_done") => (matches = Restricted(words))

C4_Witness ==
    /\ pc = "search_done" /\ batchSize = 2
    /\ words = <<<<"alef">>, <<"bet">>, <<"alef">>>>
    /\ pattern = <<"alef">>
    /\ matches = <<<<"alef">>, <<"alef">>>>

--------------------------------------------------------------------------
(* loadAndSearchWordlists *)

\* allMatches.unshift(...found): the new matches put in front
PushAllFront(all, found) == found \o all

\* allMatches.push(...found)
PushAll(all, found) == all \o found

\* the loop that drops a word only when it repeats the word just before it
RECURSIVE DedupeAdjacent(_, _, _)
DedupeAdjacent(all, seen, final) ==
    IF all = <<>> THEN final
    ELSE IF final # <<>> /\ final[Len(final)] = Head(all)
    THEN DedupeAdjacent(Tail(all), seen, final)
    ELSE DedupeAdjacent(Tail(all), seen \cup {Head(all)}, Append(final, Head(all)))

\* for (const word of allMatches) if (!seen.has(word)) { seen.add(word); finalMatches.push(word) }
RECURSIVE Dedupe(_, _, _)
Dedupe(all, seen, final) ==
    IF all = <<>> THEN final
    ELSE IF Head(all) \in seen
    THEN Dedupe(Tail(all), seen, final)
    ELSE Dedupe(Tail(all), seen \cup {Head(all)}, Append(final, Head(all)))

\* onSourceStatus(key, status, count, error); error is e.message, here the kind
\* of the error thrown ("load" or "SyntaxError"), "undefined" when not passed
StatusCall(key, status, count, error) ==
    [key |-> key, status |-> status, count |-> count, error |-> error]

\* the position after source key number k: the next key, or the custom lists
AfterSource(k) == IF k < Len(sourceKeys) THEN "source_loop" ELSE "custom_loop"

\* the loop head for a source key: onProgress, then loadWordlist awaits fetch
LoadSource ==
    /\ pc = "source_loop"
    /\ pc' = "fetching"
    /\ trace' = Append(trace, [ev |-> "load", loop |-> "source", index |-> si])
    /\ UNCHANGED <<hostVars, inputVars, rx, testVars, searchVars, runArgs, runVars>>

\* the load with the failure escaping the loop instead of being caught
FetchFailsUncaught ==
    /\ pc = "fetching"
    /\ loads' = Append(loads, [ok |-> FALSE, words |-> <<>>])
    /\ pc' = "rejected"
    /\ trace' = Append(trace, [ev |-> "loadFailed", loop |-> "source", index |-> si])
    /\ UNCHANGED <<hostVars, inputVars, rx, testVars, searchVars, runArgs, si, ci, allMatches,
                   allWordCounts, statusCalls, result>>

\* fetch rejects or the response is not ok: loadWordlist throws, the catch of
\* the source loop reports the source and the loop goes on
FetchFails ==
    /\ pc = "fetching"
    /\ loads' = Append(loads, [ok |-> FALSE, words |-> <<>>])
    /\ statusCalls' = Append(statusCalls, StatusCall(sourceKeys[si], "error", 0, "load"))
    /\ si' = si + 1
    /\ pc' = AfterSource(si)
    /\ trace' = Append(trace, [ev |-> "loadFailed", loop |-> "source", index |-> si])
    /\ UNCHANGED <<hostVars, inputVars, rx, testVars, searchVars, runArgs, ci, allMatches,
                   allWordCounts, result>>

\* loadWordlist resolves to a list of words: the total grows and
\* searchInWordlist is called with a progress callback
FetchOk ==
    /\ pc = "fetching"
    /\ \E ws \in LoadedLists :
        /\ words' = ws
        /\ loads' = Append(loads, [ok |-> TRUE, words |-> ws])
        /\ allWordCounts' = [allWordCounts EXCEPT !.total = @ + Len(ws)]
    /\ caller' = "source"
    /\ onProgress' = TRUE
    /\ pc' = "search"
    /\ trace' = Append(trace, [ev |-> "loaded", loop |-> "source", index |-> si])
    /\ UNCHANGED <<hostVars, inputVars, rx, testVars, i, matches, progress, runArgs, si, ci,
                   allMatches, statusCalls, result>>

\* the search of a source throws: the same catch reports the source
CatchSearchError ==
    /\ pc = "search_threw" /\ caller = "source"
    /\ statusCalls' = Append(statusCalls, StatusCall(sourceKeys[si], "error", 0, "SyntaxError"))
    /\ si' = si + 1
    /\ pc' = AfterSource(si)
    /\ trace' = Append(trace, Step("caught"))
    /\ UNCHANGED <<hostVars, inputVars, rx, testVars, searchVars, runArgs, ci, allMatches,
                   allWordCounts, loads, result>>

\* the search of a source returns: matches accumulated, success reported
SourceSearched ==
    /\ pc = "search_done" /\ caller = "source"
    /\ allMatches' = PushAll(allMatches, matches)
    /\ allWordCounts' = [allWordCounts EXCEPT !.matched = @ + Len(matches)]
    /\ statusCalls' = Append(statusCalls, StatusCall(sourceKeys[si], "success", Len(words), "undefined"))
    /\ si' = si + 1
    /\ pc' = AfterSource(si)
    /\ trace' = Append(trace, Step("searched"))
    /\ UNCHANGED <<hostVars, inputVars, rx, testVars, searchVars, runArgs, ci, loads, result>>

\* the loop head for a custom list: searchInWordlist on its words, no callback
SearchCustom ==
    /\ pc = "custom_loop" /\ ci <= Len(customWordlists)
    /\ words' = customWordlists[ci].words
    /\ caller' = "custom"
    /\ onProgress' = FALSE
    /\ pc' = "search"
    /\ trace' = Append(trace, [ev |-> "custom", loop |-> "custom", index |-> ci])
    /\ UNCHANGED <<hostVars, inputVars, rx, testVars, i, matches, progress, runArgs, runVars>>

\* the search of a custom list throws: nothing catches it, the call rejects
RejectRun ==
    /\ pc = "search_threw" /\ caller = "custom"
    /\ pc' = "rejected"
    /\ trace' = Append(trace, Step("rejected"))
    /\ UNCHANGED <<hostVars, inputVars, rx, testVars, searchVars, runArgs, runVars>>

\* the search of a custom list returns: matches and counts accumulated
CustomSearched ==
    /\ pc = "search_done" /\ caller = "custom"
    /\ allMatches' = PushAll(allMatches, matches)
    /\ allWordCounts' = [total |-> allWordCounts.total + Len(customWordlists[ci].words),
                         matched |-> allWordCounts.matched + Len(matches)]
    /\ ci' = ci + 1
    /\ pc' = "custom_loop"
    /\ trace' = Append(trace, Step("searched"))
    /\ UNCHANGED <<hostVars, inputVars, rx, testVars, searchVars, runArgs, si, loads,
                   statusCalls, result>>

\* after the loops: duplicates removed if asked, the result returned
Finish ==
    /\ pc = "custom_loop" /\ ci > Len(customWordlists)
    /\ LET finalMatches == IF opts.unique THEN Dedupe(allMatches, {}, <<>>) ELSE allMatches
           stats == IF opts.unique
                    THEN [allWordCounts EXCEPT !.matched = Len(finalMatches)]
                    ELSE allWordCounts
       IN /\ allWordCounts' = stats
          /\ result' = [returned |-> TRUE, matches |-> finalMatches, stats |-> stats]
    /\ pc' = "done"
    /\ trace' = Append(trace, [ev |-> "return", loop |-> "custom", index |-> ci])
    /\ UNCHANGED <<hostVars, inputVars, rx, testVars, searchVars, runArgs, si, ci, allMatches,
                   loads, statusCalls>>

--------------------------------------------------------------------------
(* Spec: one run of loadAndSearchWordlists *)

\* keys of the sources table, in the orders a caller may supply
KeyLists == {<<>>, <<"nouns">>, <<"nouns", "verbs">>, <<"verbs", "nouns">>}

CustomLists ==
    {<<>>} \cup {<<[name |-> "pasted", words |-> ws]>> : ws \in LoadedLists}
           \cup {<<[name |-> "list.txt", words |-> <<<<"bet">>, <<"alef">>>>],
                   [name |-> "pasted", words |-> <<<<"alef">>>>]>>}

\* (pattern, wholeWord, letterConstraints) of a run
SearchParams ==
    { <<(<<"alef">>), FALSE, NullConstraints>>,
      <<(<<"?">>), TRUE, NullConstraints>>,
      <<(<<"?", "bet">>), TRUE, Constraints(<<"alef">>, <<>>)>>,
      <<(<<"[">>), TRUE, NullConstraints>> }

Init ==
    /\ sourceKeys \in KeyLists
    /\ customWordlists \in CustomLists
    /\ \E sp \in SearchParams, u \in BOOLEAN :
        /\ pattern = sp[1]
        /\ opts = [stripNiqqud |-> FALSE, unique |-> u, wholeWord |-> sp[2]]
        /\ letterConstraints = sp[3]
    /\ batchSize \in 1..MaxBatch
    /\ pc = IF sourceKeys = <<>> THEN "custom_loop" ELSE "source_loop"
    /\ rx = NoRx
    /\ word = <<>> /\ verdict = FALSE
    /\ NoSearch
    /\ si = 1 /\ ci = 1
    /\ allMatches = <<>> /\ allWordCounts = [total |-> 0, matched |-> 0]
    /\ loads = <<>> /\ statusCalls = <<>> /\ result = NoResult /\ trace = <<>>
    /\ NoHost

Next ==
    \/ LoadSource \/ FetchFails \/ FetchOk
    \/ SearchEnter \/ SearchBatch \/ SearchResume
    \/ CatchSearchError \/ SourceSearched
    \/ SearchCustom \/ RejectRun \/ CustomSearched
    \/ Finish

Spec == Init /\ [][Next]_vars

\* what the search of source key number k contributed: the accepted words of
\* the list it loaded if the source was reported a success, nothing otherwise
SourceMatches(k) ==
    IF k <= Len(statusCalls) /\ statusCalls[k].status = "success"
    THEN Restricted(loads[k].words) ELSE <<>>

RECURSIVE FromSources(_)
FromSources(k) == IF k = 0 THEN <<>> ELSE FromSources(k - 1) \o SourceMatches(k)

RECURSIVE FromCustom(_)
FromCustom(k) ==
    IF k = 0 THEN <<>> ELSE FromCustom(k - 1) \o Restricted(customWordlists[k].words)

\* s restricted to the positions that hold a word for the first time
FirstOccurrences(s) ==
    LET first == {n \in 1..Len(s) : \A m \in 1..(n - 1) : s[m] # s[n]}
        nth(k) == CHOOSE n \in first : Cardinality({m \in first : m <= n}) = k
    IN [k \in 1..Cardinality(first) |-> s[nth(k)]]

\* C1: a source whose load fails is reported by onSourceStatus(key, 'error', 0,
\* message), the run goes on to every later source key and custom list, the
\* call is not rejected because of it, and the returned matches are those of
\* the sources reported a success followed by those of the custom lists.
C1_LoadErrorIsolated ==
    /\ \A k \in 1..Len(loads) : ~loads[k].ok =>
            /\ k <= Len(statusCalls)
            /\ statusCalls[k] = StatusCall(sourceKeys[k], "error", 0, "load")
    /\ (pc = "rejected") =>
            /\ caller = "custom"
            /\ templateToRegex(pattern, opts.wholeWord).threw
    /\ (pc = "done") =>
            /\ Len(loads) = Len(sourceKeys)
            /\ Len(statusCalls) = Len(sourceKeys)
            /\ ci = Len(customWordlists) + 1
            /\ result.returned
            /\ LET all == FromSources(Len(sourceKeys)) \o FromCustom(Len(customWordlists))
               IN result.matches = IF opts.unique THEN FirstOccurrences(all) ELSE all

C1_Witness ==
    /\ pc = "done" /\ customWordlists = <<>>
    /\ statusCalls = <<StatusCall("nouns", "error", 0, "load"),
                        StatusCall("verbs", "success", 3, "undefined")>>
    /\ Len(result.matches) = 3

\* position of a step in the supplied order: source keys first, custom lists after
Rank(e) == IF e.loop = "source" THEN e.index ELSE Len(sourceKeys) + e.index
IndexesOf(ev) == SelectSeq([k \in 1..Len(trace) |-> IF trace[k].ev = ev THEN trace[k].index ELSE 0],
                           LAMBDA x : x # 0)

\* C5: the steps of a run follow the supplied order, source keys then custom
\* lists, all steps of one source before any step of the next, each source
\* loaded once; the accumulated matches are the per-source match sequences
\* concatenated in that order.
C5_SourcesInOrder ==
    /\ \A a, b \in 1..Len(trace) : a < b => Rank(trace[a]) <= Rank(trace[b])
    /\ \A k \in 1..Len(IndexesOf("load")) : IndexesOf("load")[k] = k
    /\ \A k \in 1..Len(IndexesOf("custom")) : IndexesOf("custom")[k] = k
    /\ allMatches = FromSources(si - 1) \o FromCustom(ci - 1)

C5_Witness ==
    /\ pc = "done" /\ batchSize = 1
    /\ sourceKeys = <<"verbs", "nouns">> /\ Len(customWordlists) = 2
    /\ Len(FromSources(1)) = 3 /\ Len(FromSources(2)) = 4
    /\ Len(allMatches) = 6

\* C6: with opts.unique the returned matches hold each accumulated word once,
\* in order of first occurrence, stats.matched is their number, and removing
\* duplicates from the returned matches again changes nothing.
C6_DedupeFirstOccurrence ==
    (pc = "done" /\ opts.unique) =>
        /\ result.matches = FirstOccurrences(allMatches)
        /\ result.stats.matched = Len(result.matches)
        /\ Dedupe(result.matches, {}, <<>>) = result.matches

C6_Witness ==
    /\ pc = "done" /\ opts.unique
    /\ allMatches = <<<<"alef">>, <<"alef", "bet">>, <<"alef">>>>
    /\ result.matches = <<<<"alef">>, <<"alef", "bet">>>>

\* C7 as stated: when the matcher compilation throws, the call fails and no
\* result is returned, with source keys, with custom lists or with both.
C7_CompileFailurePropagates == (pc = "done") => ~rx.threw

RECURSIVE SumCounts(_)
SumCounts(calls) == IF calls = <<>> THEN 0 ELSE Head(calls).count + SumCounts(Tail(calls))

RECURSIVE SumLengths(_)
SumLengths(lists) == IF lists = <<>> THEN 0 ELSE Len(Head(lists).words) + SumLengths(Tail(lists))

\* C9 as stated: the returned total is the sum of the counts reported in the
\* status callbacks plus the lengths of the custom lists.
C9_TotalIsSumOfCounts ==
    (pc = "done") =>
        result.stats.total = SumCounts(statusCalls) + SumLengths(customWordlists)

\* the same, for the runs in which no compilation threw
C9_TotalWhenCompiled ==
    (pc = "done" /\ ~rx.threw) =>
        result.stats.total = SumCounts(statusCalls) + SumLengths(customWordlists)

--------------------------------------------------------------------------
(* The progress calls and yields of one searchInWordlist call (SpecScan) *)

\* the number of steps of the call so far that are of kind ev
CountSteps(ev) == Cardinality({k \in 1..Len(trace) : trace[k].ev = ev})

\* the number of batches of the list: length / chunk size, rounded up
TotalBatches ==
    IF Len(words) % batchSize = 0 THEN Len(words) \div batchSize
    ELSE Len(words) \div batchSize + 1

\* C11: given a progress callback and a list longer than one chunk,
\* searchInWordlist calls onProgress(k, totalBatches) once after each chunk,
\* k = 1, 2, ..., totalBatches in this order, and yields after each chunk
\* before the next one starts; a list that fits in one chunk gets no progress
\* call and no yield.
C11_ProgressPerChunk ==
    /\ (pc \in {"batch", "yield", "search_done"} /\ Len(words) > batchSize) =>
        LET done == CountSteps("batch") IN
        /\ onProgress => progress = [k \in 1..done |-> <<k, TotalBatches>>]
        /\ ~onProgress => progress = <<>>
        /\ CountSteps("resume") = IF pc = "yield" THEN done - 1 ELSE done
        /\ \A k \in 1..Len(trace) :
              trace[k].ev = "batch" => (k < Len(trace) => trace[k + 1].ev = "resume")
        /\ (pc = "search_done") => done = TotalBatches
    /\ (pc = "search_done" /\ Len(words) <= batchSize) =>
        /\ progress = <<>>
        /\ CountSteps("batch") = 0 /\ CountSteps("resume") = 0

C11_Witness ==
    /\ pc = "search_done" /\ onProgress /\ batchSize = 2 /\ Len(words) = 3
    /\ progress = <<(<<1, 2>>), (<<2, 2>>)>>
    /\ CountSteps("resume") = 2

--------------------------------------------------------------------------
(* stripNiqqud and loadWordlist *)

\* "sheva" is a point of the Hebrew block (a combining mark), "diaeresis" the
\* spacing diaeresis, whose compatibility decomposition is a space followed
\* by the combining diaeresis
TextChars == {"alef", "sheva", "diaeresis", " ", "\n", "\r"}
Texts == SeqsUpTo(TextChars, MaxTextLen)

\* /\s/
IsSpace(c) == c \in {" ", "\n", "\r"}

\* /\p{M}/u
IsMark(c) == c \in {"sheva", "combining diaeresis"}

\* HEBREW_BLOCK.test(w): some character in U+0590..U+05FF
HEBREW_BLOCK(w) ==
    \E k \in 1..Len(w) : CodePoint("\\u0590") <= CodePoint(w[k])
                         /\ CodePoint(w[k]) <= CodePoint("\\u05FF")

\* s.normalize("NFKD")
RECURSIVE NFKD(_)
NFKD(s) ==
    IF s = <<>> THEN <<>>
    ELSE (IF Head(s) = "diaeresis" THEN <<" ", "combining diaeresis">> ELSE <<Head(s)>>)
         \o NFKD(Tail(s))

\* Array.from(s.normalize("NFKD")).filter(ch => !/\p{M}/u.test(ch)).join("")
stripNiqqud(s) == SelectSeq(NFKD(s), LAMBDA ch : ~IsMark(ch))

\* s.trim()
RECURSIVE TrimStart(_)
TrimStart(s) == IF s # <<>> /\ IsSpace(Head(s)) THEN TrimStart(Tail(s)) ELSE s
RECURSIVE TrimEnd(_)
TrimEnd(s) ==
    IF s # <<>> /\ IsSpace(s[Len(s)]) THEN TrimEnd(SubSeq(s, 1, Len(s) - 1)) ELSE s
Trim(s) == TrimEnd(TrimStart(s))

\* t.split(/\r?\n/): cur is the line read so far
RECURSIVE SplitLines(_, _)
SplitLines(t, cur) ==
    IF t = <<>> THEN <<cur>>
    ELSE IF Head(t) = "\n"
    THEN <<(IF cur # <<>> /\ cur[Len(cur)] = "\r" THEN SubSeq(cur, 1, Len(cur) - 1) ELSE cur)>>
         \o SplitLines(Tail(t), <<>>)
    ELSE SplitLines(Tail(t), Append(cur, Head(t)))

RECURSIVE MapTrim(_)
MapTrim(lines) == IF lines = <<>> THEN <<>> ELSE <<Trim(Head(lines))>> \o MapTrim(Tail(lines))

\* text.split(/\r?\n/).map(s => s.trim()).filter(Boolean), then
\* filter(w => !/\s/.test(w) && HEBREW_BLOCK.test(w))
RetainedWords(t) ==
    SelectSeq(SelectSeq(MapTrim(SplitLines(t, <<>>)), LAMBDA w : w # <<>>),
              LAMBDA w : (\A k \in 1..Len(w) : ~IsSpace(w[k])) /\ HEBREW_BLOCK(w))

RECURSIVE MapStrip(_)
MapStrip(batch) ==
    IF batch = <<>> THEN <<>> ELSE <<stripNiqqud(Head(batch))>> \o MapStrip(Tail(batch))

\* for (i = 0; i < words.length; i += BATCH_SIZE)
\*     processedWords.push(...words.slice(i, i + BATCH_SIZE).map(stripNiqqud))
RECURSIVE StripInBatches(_, _, _)
StripInBatches(ws, from, size) ==
    IF from >= Len(ws) THEN <<>>
    ELSE MapStrip(BatchOf(ws, from, size)) \o StripInBatches(ws, from + size, size)

--------------------------------------------------------------------------
(* SpecLoad: one call loadWordlist(sourceKey, customUrl, pasted, opts) *)

InitLoad ==
    /\ pc = "load"
    /\ pattern = <<>>
    /\ opts \in {[NoOpts EXCEPT !.stripNiqqud = sn] : sn \in BOOLEAN}
    /\ letterConstraints = NullConstraints
    /\ batchSize \in 1..MaxBatch
    /\ rx = NoRx
    /\ word = <<>> /\ verdict = FALSE
    /\ NoSearch /\ NoRun /\ NoHost

\* fetch rejects, the response is not ok, or a custom source has neither
\* pasted text nor a URL: loadWordlist throws
LoadThrows ==
    /\ pc = "load"
    /\ pc' = "load_threw"
    /\ UNCHANGED <<hostVars, inputVars, rx, testVars, searchVars, runArgs, runVars, trace>>

\* the text is there: the pasted text, or the body of the response
LoadText ==
    /\ pc = "load"
    /\ text' \in Texts
    /\ pc' = "split"
    /\ UNCHANGED <<letterStates, lastToggle, runs, sourceStatus, statusText, shownMatches>>
    /\ UNCHANGED <<inputVars, rx, testVars, searchVars, runArgs, runVars, trace>>

\* lines split, trimmed and filtered
LoadSplit ==
    /\ pc = "split"
    /\ words' = RetainedWords(text)
    /\ pc' = IF opts.stripNiqqud THEN "strip" ELSE "load_done"
    /\ UNCHANGED <<hostVars, inputVars, rx, testVars, caller, onProgress, i, matches,
                   progress, runArgs, runVars, trace>>

\* opts.stripNiqqud: every retained word stripped, batch by batch
LoadStrip ==
    /\ pc = "strip"
    /\ words' = StripInBatches(words, 0, batchSize)
    /\ pc' = "load_done"
    /\ UNCHANGED <<hostVars, inputVars, rx, testVars, caller, onProgress, i, matches,
                   progress, runArgs, runVars, trace>>

NextLoad == LoadThrows \/ LoadText \/ LoadSplit \/ LoadStrip

SpecLoad == InitLoad /\ [][NextLoad]_vars

\* the invariants of a Word: non-empty, no whitespace, a Hebrew-block character
ValidWord(w) ==
    /\ w # <<>>
    /\ \A k \in 1..Len(w) : ~IsSpace(w[k])
    /\ \E k \in 1..Len(w) : w[k] \in {"alef", "sheva"}

\* C12 as stated: every word loadWordlist returns is non-empty, has no
\* whitespace and holds a Hebrew-block character, with and without stripNiqqud.
C12_ReturnedWordsValid ==
    (pc = "load_done") => \A k \in 1..Len(words) : ValidWord(words[k])

\* the same, for the calls without stripNiqqud
C12_ValidWithoutStrip ==
    (pc = "load_done" /\ ~opts.stripNiqqud) => \A k \in 1..Len(words) : ValidWord(words[k])

--------------------------------------------------------------------------
(* The HebrewMatcher component: the letter picker and handleSearch *)

\* the letters of the picker
Letters == HebrewChars

\* letterStates[letter], an object kept as its entries in insertion order
Lookup(ls, letter) ==
    IF \E k \in 1..Len(ls) : ls[k][1] = letter
    THEN ls[CHOOSE k \in 1..Len(ls) : ls[k][1] = letter][2]
    ELSE "undefined"

\* delete newStates[letter]
DeleteEntry(ls, letter) == SelectSeq(ls, LAMBDA e : e[1] # letter)

\* newStates[letter] = newState
SetEntry(ls, letter, newState) ==
    IF \E k \in 1..Len(ls) : ls[k][1] = letter
    THEN [k \in 1..Len(ls) |-> IF ls[k][1] = letter THEN <<letter, newState>> ELSE ls[k]]
    ELSE Append(ls, <<letter, newState>>)

\* the new state with a click that never takes a mark back
NewStateNoUntoggle(current, isRightClick) ==
    IF isRightClick THEN "deselected" ELSE "selected"

\* newState of handleLetterClick
NewState(current, isRightClick) ==
    IF isRightClick
    THEN (IF current = "deselected" THEN "undefined" ELSE "deselected")
    ELSE (IF current = "selected" THEN "undefined" ELSE "selected")

\* the updater passed to setLetterStates by handleLetterClick
ClickUpdate(prev, letter, isRightClick) ==
    LET newState == NewState(Lookup(prev, letter), isRightClick) IN
    IF newState = "undefined" THEN DeleteEntry(prev, letter)
    ELSE SetEntry(prev, letter, newState)

\* Object.entries(letterStates).filter(([, state]) => state === st).map(([letter]) => letter)
LettersIn(ls, st) ==
    LET kept == SelectSeq(ls, LAMBDA e : e[2] = st)
    IN [k \in 1..Len(kept) |-> kept[k][1]]

\* getSelectedDeselectedSummary, then the letterConstraints of handleSearch
SummaryConstraints(ls) ==
    IF Len(LettersIn(ls, "selected")) > 0 \/ Len(LettersIn(ls, "deselected")) > 0
    THEN Constraints(LettersIn(ls, "selected"), LettersIn(ls, "deselected"))
    ELSE NullConstraints

uiFrame == <<pc, inputVars, rx, testVars, searchVars, runArgs, runVars, trace, text>>

\* a left click (onClick) or a right click (onContextMenu) on a letter key
HandleLetterClick ==
    /\ \E letter \in Letters, isRightClick \in BOOLEAN :
        /\ letterStates' = ClickUpdate(letterStates, letter, isRightClick)
        /\ lastToggle' = [kind |-> "click", letter |-> letter,
                          isRightClick |-> isRightClick, before |-> letterStates]
    /\ UNCHANGED <<uiFrame, runs, sourceStatus, statusText, shownMatches>>

\* the clear-all button: setLetterStates({})
ClearAll ==
    /\ letterStates' = <<>>
    /\ lastToggle' = [kind |-> "clear", letter |-> "", isRightClick |-> FALSE,
                      before |-> letterStates]
    /\ UNCHANGED <<uiFrame, runs, sourceStatus, statusText, shownMatches>>

InFlight(r) == runs[r].pc \in {"fetching", "yield"}

\* run r is through with source number runs[r].at: the next source is loaded,
\* or the call returns and handleSearch shows the results
Proceed(r) ==
    IF runs[r].at < Len(sourceKeys)
    THEN /\ runs' = [runs EXCEPT ![r].pc = "fetching", ![r].at = @ + 1]
         /\ statusText' = [message |-> "loading", run |-> r]
         /\ UNCHANGED shownMatches
    ELSE /\ runs' = [runs EXCEPT ![r].pc = "done"]
         /\ statusText' = [message |-> "done", run |-> r]
         /\ shownMatches' = r

\* a click on the search button: validation, status and source status reset,
\* the constraints read from the picker, the run started up to its first fetch
HandleSearch ==
    /\ pattern # <<>>
    /\ ~(Len(sourceKeys) = 0 /\ Len(customWordlists) = 0)
    /\ \E r \in 1..MaxRuns :
        /\ runs[r].pc = "idle"
        /\ \A q \in 1..(r - 1) : runs[q].pc # "idle"
        /\ runs' = [runs EXCEPT ![r] = [pc |-> "fetching", at |-> 1,
                        letterConstraints |-> SummaryConstraints(letterStates)]]
        /\ statusText' = [message |-> "loading", run |-> r]
    /\ sourceStatus' = [k \in DOMAIN sourceStatus |-> [status |-> "none", run |-> 0]]
    /\ UNCHANGED <<uiFrame, letterStates, lastToggle, shownMatches>>

\* the fetch of a run fails: handleSourceStatus(key, 'error', 0, message)
RunFetchFails ==
    \E r \in 1..MaxRuns :
        /\ runs[r].pc = "fetching"
        /\ sourceStatus' = [sourceStatus EXCEPT ![sourceKeys[runs[r].at]] =
                                [status |-> "error", run |-> r]]
        /\ Proceed(r)
        /\ UNCHANGED <<uiFrame, letterStates, lastToggle>>

\* the fetch of a run delivers at most BATCH_SIZE words: searched at once,
\* handleSourceStatus(key, 'success', count)
RunFetchSmall ==
    \E r \in 1..MaxRuns :
        /\ runs[r].pc = "fetching"
        /\ sourceStatus' = [sourceStatus EXCEPT ![sourceKeys[runs[r].at]] =
                                [status |-> "success", run |-> r]]
        /\ Proceed(r)
        /\ UNCHANGED <<uiFrame, letterStates, lastToggle>>

\* the fetch of a run delivers more words: the search yields between batches
RunFetchLarge ==
    \E r \in 1..MaxRuns :
        /\ runs[r].pc = "fetching"
        /\ runs' = [runs EXCEPT ![r].pc = "yield"]
        /\ statusText' = [message |-> "searching", run |-> r]
        /\ UNCHANGED <<uiFrame, letterStates, lastToggle, sourceStatus, shownMatches>>

\* the last batch of a source is through: handleSourceStatus(key, 'success', count)
RunSearched ==
    \E r \in 1..MaxRuns :
        /\ runs[r].pc = "yield"
        /\ sourceStatus' = [sourceStatus EXCEPT ![sourceKeys[runs[r].at]] =
                                [status |-> "success", run |-> r]]
        /\ Proceed(r)
        /\ UNCHANGED <<uiFrame, letterStates, lastToggle>>

InitUI ==
    /\ pc = "ui"
    /\ pattern = <<"alef", "?">>
    /\ opts = [stripNiqqud |-> TRUE, unique |-> TRUE, wholeWord |-> TRUE]
    /\ letterConstraints = NullConstraints
    /\ batchSize = 1
    /\ rx = NoRx
    /\ word = <<>> /\ verdict = FALSE
    /\ NoSearch
    /\ sourceKeys \in KeyLists
    /\ customWordlists = <<>>
    /\ si = 1 /\ ci = 1
    /\ allMatches = <<>> /\ allWordCounts = [total |-> 0, matched |-> 0]
    /\ loads = <<>> /\ statusCalls = <<>> /\ result = NoResult /\ trace = <<>>
    /\ NoHost

\* the search button and the runs it starts, the picker left alone
NextUI ==
    \/ HandleSearch \/ RunFetchFails \/ RunFetchSmall \/ RunFetchLarge \/ RunSearched

SpecUI == InitUI /\ [][NextUI]_vars

\* the picker and the search button that reads it
InitPicker ==
    /\ InitUI
    /\ sourceKeys = <<"nouns", "verbs">>

NextPicker ==
    \/ HandleLetterClick \/ ClearAll \/ HandleSearch

SpecPicker == InitPicker /\ [][NextPicker]_vars

\* C13 as stated: while a run started by handleSearch is in flight, a second
\* search trigger starts no other run, so at most one run is in flight.
C13_RunsSerialized == Cardinality({r \in 1..MaxRuns : InFlight(r)}) <= 1

\* C14: the selected and deselected letters handed to a search are disjoint;
\* a click decides the clicked letter's state from its state just before (left:
\* selected, or unconstrained if it was selected; right: deselected, or
\* unconstrained if it was deselected) and leaves every other letter as it was;
\* clear-all leaves every letter unconstrained.
C14_LastToggleWins ==
    /\ Range(LettersIn(letterStates, "selected"))
          \cap Range(LettersIn(letterStates, "deselected")) = {}
    /\ \A r \in 1..MaxRuns :
          Range(runs[r].letterConstraints.selected)
            \cap Range(runs[r].letterConstraints.deselected) = {}
    /\ (lastToggle.kind = "click") =>
          LET was == Lookup(lastToggle.before, lastToggle.letter)
              now == Lookup(letterStates, lastToggle.letter)
          IN /\ lastToggle.isRightClick =>
                    now = IF was = "deselected" THEN "undefined" ELSE "deselected"
             /\ ~lastToggle.isRightClick =>
                    now = IF was = "selected" THEN "undefined" ELSE "selected"
             /\ \A other \in Letters \ {lastToggle.letter} :
                    Lookup(letterStates, other) = Lookup(lastToggle.before, other)
    /\ (lastToggle.kind = "clear") =>
          \A letter \in Letters : Lookup(letterStates, letter) = "undefined"

C14_Witness ==
    /\ lastToggle.kind = "click" /\ lastToggle.isRightClick /\ lastToggle.letter = "alef"
    /\ Lookup(lastToggle.before, "alef") = "selected"
    /\ letterStates = <<(<<"bet", "selected">>), (<<"alef", "deselected">>)>>
    /\ \E r \in 1..MaxRuns :
          runs[r].letterConstraints = Constraints(<<"alef", "bet">>, <<>>)

====
